---- MODULE Spec2Model ----
(***************************************************************************)
(* Model of the rule compiler (parseRules, groupBails) and of the nested   *)
(* path accessor (getNested, setNested) of vue-formulario's utils.         *)
(*                                                                         *)
(* JavaScript values are records tagged by t, with one payload field per   *)
(* type.  A string is the sequence of its characters, an array the         *)
(* sequence of its elements, an object (and an array of the accessor) the  *)
(* list of its own <<key, value>> properties in insertion order.           *)
(***************************************************************************)
EXTENDS Integers, Sequences, FiniteSets, TLC

\* ------------------------------------------------------------- bounds
MaxLen == 4       \* characters of a declaration string drawn from Alphabet
MaxElems == 3     \* elements of an array declaration, tokens of a joined one
MaxCalls == 2     \* calls of groupBails on one rule array
MaxSegs == 2      \* segments of a path expression
MaxOps == 2       \* accessor calls on one root object

\* ------------------------------------------------------------- values
Str(s) == [t |-> "string", s |-> s]
Fn(id) == [t |-> "function", f |-> id]
Arr(s) == [t |-> "array", a |-> s]
Obj(s) == [t |-> "object", o |-> s]
Num(n) == [t |-> "number", n |-> n]
Bool(b) == [t |-> "boolean", b |-> b]
Null == [t |-> "null"]
Undefined == [t |-> "undefined"]
True == Bool(TRUE)
False == Bool(FALSE)

\* outcome of a call: a returned value, or a thrown error
Return(x) == [throws |-> "none", value |-> x]
Throw(e) == [throws |-> e, value |-> Undefined]

\* ------------------------------------------------------------- strings
Lowers == <<"a", "b", "i", "l", "m", "n", "x">>
Uppers == <<"A", "B", "I", "L", "M", "N", "X">>
Digits == {"0", "1", "2"}

toUpperCaseChar(c) ==
    IF \E k \in 1..Len(Lowers) : Lowers[k] = c
    THEN Uppers[CHOOSE k \in 1..Len(Lowers) : Lowers[k] = c]
    ELSE c

toLowerCaseChar(c) ==
    IF \E k \in 1..Len(Uppers) : Uppers[k] = c
    THEN Lowers[CHOOSE k \in 1..Len(Uppers) : Uppers[k] = c]
    ELSE c

toLowerCase(s) == [k \in 1..Len(s) |-> toLowerCaseChar(s[k])]

\* [a-z0-9] under the i flag, over the characters the model uses
IsAlnum(c) ==
    \/ \E k \in 1..Len(Lowers) : c = Lowers[k] \/ c = Uppers[k]
    \/ c \in Digits

\* String.prototype.indexOf for a two-character needle, 1-based, 0 if absent
indexOf2(s, c1, c2) ==
    IF \E k \in 1..(Len(s) - 1) : s[k] = c1 /\ s[k + 1] = c2
    THEN CHOOSE k \in 1..(Len(s) - 1) :
            /\ s[k] = c1 /\ s[k + 1] = c2
            /\ \A j \in 1..(k - 1) : ~(s[j] = c1 /\ s[j + 1] = c2)
    ELSE 0

\* String.prototype.indexOf for one character, 1-based, 0 if absent
indexOf(s, c) ==
    IF \E k \in 1..Len(s) : s[k] = c
    THEN CHOOSE k \in 1..Len(s) : s[k] = c /\ \A j \in 1..(k - 1) : s[j] # c
    ELSE 0

RECURSIVE split(_, _)
split(s, sep) ==
    LET i == indexOf(s, sep)
    IN  IF i = 0 THEN <<s>>
        ELSE <<SubSeq(s, 1, i - 1)>> \o split(SubSeq(s, i + 1, Len(s)), sep)

RECURSIVE join(_, _)
join(parts, sep) ==
    IF Len(parts) = 0 THEN <<>>
    ELSE IF Len(parts) = 1 THEN parts[1]
    ELSE parts[1] \o <<sep>> \o join(Tail(parts), sep)

\* string.replace(/([_][a-z0-9])/ig, cb) scanning `string` from position i
RECURSIVE snakeReplace(_, _)
snakeReplace(string, i) ==
    IF i > Len(string) THEN <<>>
    ELSE IF string[i] = "_" /\ i < Len(string) /\ IsAlnum(string[i + 1])
    THEN LET at == indexOf2(string, "_", string[i + 1])
             out == IF at # 1 /\ string[at - 1] # "_"
                    THEN <<toUpperCaseChar(string[i + 1])>>
                    ELSE <<"_", string[i + 1]>>
         IN  out \o snakeReplace(string, i + 2)
    ELSE <<string[i]>> \o snakeReplace(string, i + 1)

snakeToCamel(string) ==
    IF string.t = "string" THEN Str(snakeReplace(string.s, 1)) ELSE string

\* ------------------------------------------------------------- arrays
\* arr[i] for a 0-based index i: undefined outside the array
At(arr, i) == IF i + 1 \in 1..Len(arr) THEN arr[i + 1] ELSE Undefined

\* truthiness, as used by filter(f => !!f)
Truthy(x) ==
    CASE x.t = "undefined" -> FALSE
      [] x.t = "null" -> FALSE
      [] x.t = "boolean" -> x.b
      [] x.t = "number" -> x.n # 0
      [] x.t = "string" -> Len(x.s) > 0
      [] OTHER -> TRUE

RECURSIVE filterTruthy(_)
filterTruthy(arr) ==
    IF Len(arr) = 0 THEN <<>>
    ELSE (IF Truthy(Head(arr)) THEN <<Head(arr)>> ELSE <<>>) \o filterTruthy(Tail(arr))

\* ------------------------------------------------------------- registry
\* the rule registry: its own property names, and the validator under each
RegistryNames ==
    { <<"a">>, <<"a", "A">>, <<"_", "a">>, <<"b", "a", "i", "l">>,
      <<"B", "a", "i", "l">>, <<"m", "i", "n">>, <<"m", "a", "x">> }

Validator(name) == Fn(<<"#">> \o name)

hasOwnProperty(rules, ruleName) == ruleName.t = "string" /\ ruleName.s \in rules

\* ------------------------------------------------------------- parseRules
\* a slip: the leading '^' is left on the name
parseModifierKeepsCaret(ruleName) ==
    IF ruleName.t # "string"
    THEN Throw("TypeError")
    ELSE IF Len(ruleName.s) > 0 /\ ruleName.s[1] = "^"
    THEN Return(<<snakeToCamel(ruleName), Str(<<"^">>)>>)
    ELSE Return(<<snakeToCamel(ruleName), Null>>)

parseModifier(ruleName) ==
    IF ruleName.t # "string"
    THEN Throw("TypeError")              \* ruleName.charAt is not a function
    ELSE IF Len(ruleName.s) > 0 /\ ruleName.s[1] = "^"
    THEN Return(<<snakeToCamel(Str(Tail(ruleName.s))), Str(<<"^">>)>>)
    ELSE Return(<<snakeToCamel(ruleName), Null>>)

parseRule(rule, rules) ==
    IF rule.t = "function" THEN Return(Arr(<<rule, Arr(<<>>)>>))
    ELSE IF rule.t = "array" /\ Len(rule.a) > 0
    THEN LET parsed == parseModifier(Head(rule.a))
             rest == Arr(Tail(rule.a))
             ruleName == parsed.value[1]
             modifier == parsed.value[2]
         IN  IF parsed.throws # "none" THEN Throw(parsed.throws)
             ELSE IF hasOwnProperty(rules, ruleName)
             THEN Return(Arr(<<Validator(ruleName.s), rest, ruleName, modifier>>))
             ELSE IF ruleName.t = "function"
             THEN Return(Arr(<<ruleName, rest, ruleName, modifier>>))
             ELSE Return(False)
    ELSE IF rule.t = "string"
    THEN LET segments == split(rule.s, ":")
             parsed == parseModifier(Str(Head(segments)))
             rest == Tail(segments)
             ruleName == parsed.value[1]
             modifier == parsed.value[2]
             pieces == split(join(rest, ":"), ",")
             args == IF Len(rest) > 0
                     THEN [k \in 1..Len(pieces) |-> Str(pieces[k])]
                     ELSE <<>>
         IN  IF hasOwnProperty(rules, ruleName)
             THEN Return(Arr(<<Validator(ruleName.s), Arr(args), ruleName, modifier>>))
             ELSE Throw("Error")         \* Unknown validation rule
    ELSE Return(False)

\* validation.map(rule => parseRule(rule, rules)): the first throw ends the map
RECURSIVE mapParseRule(_, _)
mapParseRule(validation, rules) ==
    IF Len(validation) = 0 THEN Return(<<>>)
    ELSE LET first == parseRule(Head(validation), rules)
             others == mapParseRule(Tail(validation), rules)
         IN  IF first.throws # "none" THEN Throw(first.throws)
             ELSE IF others.throws # "none" THEN Throw(others.throws)
             ELSE Return(<<first.value>> \o others.value)

parseRules(validation, rules) ==
    LET pieces == split(validation.s, "|")
        array == IF validation.t = "string"
                 THEN [k \in 1..Len(pieces) |-> Str(pieces[k])]
                 ELSE IF validation.t = "array" THEN validation.a
                 ELSE <<>>
        mapped == mapParseRule(array, rules)
    IN  IF mapped.throws # "none" THEN Throw(mapped.throws)
        ELSE Return(filterTruthy(mapped.value))

\* ------------------------------------------------------------- groupBails
\* a group array carrying the non-enumerable property 'bail'
Group(rules, bail) == [t |-> "array", a |-> rules, bail |-> bail]

\* group.bail, undefined on an array that was never given the property
BailOf(group) == IF "bail" \in DOMAIN group THEN group.bail ELSE Undefined

Bail == <<"b", "a", "i", "l">>

\* rules.findIndex(([,, rule]) => rule.toLowerCase() === 'bail') from index i
RECURSIVE findBail(_, _)
findBail(rules, i) ==
    IF i >= Len(rules) THEN Return(-1)
    ELSE LET rule == At(At(rules, i).a, 2)
         IN  IF rule.t # "string"
             THEN Throw("TypeError")     \* rule.toLowerCase is not a function
             ELSE IF toLowerCase(rule.s) = Bail THEN Return(i)
             ELSE findBail(rules, i + 1)

\* group.findIndex(([,,, modifier]) => modifier === '^')
findMod(group) ==
    LET hits == { i \in 0..(Len(group) - 1) : At(At(group, i).a, 3) = Str(<<"^">>) }
    IN  IF hits = {} THEN -1 ELSE CHOOSE i \in hits : \A j \in hits : i <= j

\* splits: the groups returned; group: the array `group` as the call leaves it
RECURSIVE splitByMod(_, _)
splitByMod(group, bailGroup) ==
    IF Len(group.a) < 2
    THEN [splits |-> <<group>>, group |-> group]
    ELSE LET modIndex == findMod(group.a)
             preMod == Arr(SubSeq(group.a, 1, modIndex))
             spliced == [group EXCEPT !.a = SubSeq(group.a, modIndex + 1, Len(group.a))]
             shifted == [spliced EXCEPT !.a = Tail(spliced.a)]
             before == IF Len(preMod.a) > 0
                       THEN splitByMod(preMod, bailGroup).splits
                       ELSE <<>>
             after == IF Len(shifted.a) > 0
                      THEN splitByMod(shifted, bailGroup)
                      ELSE [splits |-> <<>>, group |-> shifted]
         IN  IF modIndex >= 0
             THEN [splits |-> before \o <<Group(<<Head(spliced.a)>>, True)>> \o after.splits,
                   group |-> after.group]
             ELSE [splits |-> <<group>>, group |-> group]

\* groups.reduce((groups, group) => groups.concat(splitByMod(group)), [])
RECURSIVE reduceSplit(_)
reduceSplit(groups) ==
    IF Len(groups) = 0 THEN <<>>
    ELSE splitByMod(Head(groups), FALSE).splits \o reduceSplit(Tail(groups))

\* a slip: the bail keyword itself is kept with the rules before it
preBailKeepsKeyword(spliced) == spliced

\* rules.splice(0, bailIndex + 1).slice(0, -1), given what splice returned
preBail(spliced) == SubSeq(spliced, 1, Len(spliced) - 1)

\* a slip: the rules after the keyword are batched into one bailing group
bailGroupsBatched(rules) == IF Len(rules) > 0 THEN <<Group(rules, True)>> ELSE <<>>

\* rules.map(rule => groups.push(Object.defineProperty([rule], 'bail', ...)))
bailGroups(rules) == [k \in 1..Len(rules) |-> Group(<<rules[k]>>, True)]

\* value: the groups returned; rules: the array `rules` as the call leaves it
groupBails(rules) ==
    LET found == findBail(rules, 0)
        bailIndex == found.value
        spliced == SubSeq(rules, 1, bailIndex + 1)
        remaining == SubSeq(rules, bailIndex + 2, Len(rules))
        before == preBail(spliced)
    IN  IF found.throws # "none"
        THEN [throws |-> found.throws, value |-> <<>>, rules |-> rules]
        ELSE IF bailIndex >= 0
        THEN [throws |-> "none",
              value |-> reduceSplit((IF Len(before) > 0 THEN <<Arr(before)>> ELSE <<>>)
                                    \o bailGroups(remaining)),
              rules |-> remaining]
        ELSE [throws |-> "none",
              value |-> reduceSplit(<<Arr(rules)>>),
              rules |-> splitByMod(Arr(rules), FALSE).group.a]

\* ------------------------------------------------------------- containers
\* {} , and [] as the accessor sees it: own properties under string keys
EmptyObject == Obj(<<>>)
EmptyArray == [t |-> "array", o |-> <<>>]

IsContainer(x) == x.t = "object" \/ (x.t = "array" /\ "o" \in DOMAIN x)
IsNullish(x) == x.t = "null" \/ x.t = "undefined"

HasProp(x, key) == IsContainer(x) /\ \E k \in 1..Len(x.o) : x.o[k][1] = key

\* x[key] for a non-nullish x: no primitive of Values has a property under a
\* key of Paths, and no key of Paths is 'length' 
GetProp(x, key) ==
    IF HasProp(x, key)
    THEN x.o[CHOOSE k \in 1..Len(x.o) : x.o[k][1] = key][2]
    ELSE Undefined

\* x[key] = val for a container x
PutProp(x, key, val) ==
    IF HasProp(x, key)
    THEN [x EXCEPT !.o = [k \in 1..Len(x.o) |->
                            IF x.o[k][1] = key THEN <<key, val>> ELSE x.o[k]]]
    ELSE [x EXCEPT !.o = Append(x.o, <<key, val>>)]

\* fieldPart.match(/(.+)\[(\d+)\]$/): <<name, index>>, or <<>> for null
match(fieldPart) ==
    LET n == Len(fieldPart)
        nonDigits == { k \in 1..(n - 1) : fieldPart[k] \notin Digits }
        open == CHOOSE k \in nonDigits : \A j \in nonDigits : j <= k
    IN  IF n >= 4 /\ fieldPart[n] = "]" /\ nonDigits # {}
           /\ open >= 2 /\ open <= n - 2 /\ fieldPart[open] = "["
        THEN <<SubSeq(fieldPart, 1, open - 1), SubSeq(fieldPart, open + 1, n - 1)>>
        ELSE <<>>

\* ------------------------------------------------------------- getNested
\* the loop of getNested from segment i on, `result` being the value reached
RECURSIVE getNestedFrom(_, _, _)
getNestedFrom(result, fieldParts, i) ==
    IF i > Len(fieldParts) THEN Return(result)
    ELSE LET matches == match(fieldParts[i])
             inner == GetProp(result, matches[1])
         IN  IF result = Undefined THEN Return(Null)
             ELSE IF result = Null THEN Throw("TypeError")
             ELSE IF matches # <<>>
             THEN IF inner = Undefined THEN Return(Null)
                  ELSE IF inner = Null THEN Throw("TypeError")
                  ELSE getNestedFrom(GetProp(inner, matches[2]), fieldParts, i + 1)
             ELSE getNestedFrom(GetProp(result, fieldParts[i]), fieldParts, i + 1)

getNested(obj, field) == getNestedFrom(obj, split(field, "."), 1)

\* ------------------------------------------------------------- setNested
\* the loop of setNested from segment i on; sub: subProxy as the loop leaves it
Stuck(subProxy) == [throws |-> "TypeError", sub |-> subProxy]

RECURSIVE setNestedFrom(_, _, _, _)
setNestedFrom(subProxy, fieldParts, i, value) ==
    LET fieldPart == fieldParts[i]
        matches == match(fieldPart)
        last == (i = Len(fieldParts))
        key == IF matches # <<>> THEN matches[1] ELSE fieldPart
        missing == GetProp(subProxy, key) = Undefined
        fresh == IF matches # <<>> THEN EmptyArray ELSE EmptyObject
        vivified == IF missing THEN PutProp(subProxy, key, fresh) ELSE subProxy
        child == GetProp(vivified, key)
        element == GetProp(child, matches[2])
        below == setNestedFrom(element, fieldParts, i + 1, value)
        deeper == setNestedFrom(child, fieldParts, i + 1, value)
    IN  IF IsNullish(subProxy) THEN Stuck(subProxy)
        ELSE IF matches # <<>>
        THEN IF missing /\ ~IsContainer(subProxy) THEN Stuck(subProxy)
             ELSE IF IsNullish(child) THEN Stuck(vivified)
             ELSE IF last
             THEN IF ~IsContainer(child) THEN Stuck(vivified)
                  ELSE [throws |-> "none",
                        sub |-> PutProp(vivified, key, PutProp(child, matches[2], value))]
             ELSE [throws |-> below.throws,
                   sub |-> IF IsContainer(element)
                           THEN PutProp(vivified, key, PutProp(child, matches[2], below.sub))
                           ELSE vivified]
        ELSE IF last
        THEN IF ~IsContainer(subProxy) THEN Stuck(subProxy)
             ELSE [throws |-> "none", sub |-> PutProp(subProxy, fieldPart, value)]
        ELSE IF missing /\ ~IsContainer(subProxy) THEN Stuck(subProxy)
        ELSE [throws |-> deeper.throws,
              sub |-> IF IsContainer(child)
                      THEN PutProp(vivified, key, deeper.sub)
                      ELSE vivified]

\* obj: the root as the call leaves it (it is also the value returned)
setNested(obj, field, value) ==
    LET done == setNestedFrom(obj, split(field, "."), 1, value)
    IN  [throws |-> done.throws, obj |-> done.sub]

\* ------------------------------------------------------------- inputs
Alphabet == {"a", "_", "^", ":", ",", "|"}

SeqsUpTo(S, n) == UNION { [1..k -> S] : k \in 0..n }

\* rule tokens of string form
Tokens ==
    { Bail, <<"B", "a", "i", "l">>, <<"^", "m", "i", "n", ":", "1">>,
      <<"m", "a", "x">>, <<"^", "a">>, <<"a">> }

\* elements of an array declaration
Elements ==
    { Str(tok) : tok \in Tokens } \cup
    { Fn(<<"F">>),
      Arr(<<Str(<<"^", "m", "a", "x">>), Str(<<"2">>)>>),
      Arr(<<Str(<<"m", "i", "n">>)>>),
      Arr(<<Str(<<"x">>), Str(<<"1">>)>>),
      Arr(<<Fn(<<"G">>), Str(<<"1">>)>>),
      Arr(<<>>),
      Num(7) }

Declarations ==
    { Str(chars) : chars \in SeqsUpTo(Alphabet, MaxLen) } \cup
    { Str(join(toks, "|")) : toks \in SeqsUpTo(Tokens, MaxElems) \ {<<>>} } \cup
    { Arr(elems) : elems \in SeqsUpTo(Elements, MaxElems) } \cup
    { False }

Segments == { <<"a">>, <<"b">>, <<"a", "[", "0", "]">>, <<"b", "[", "1", "]">> }

Paths == { join(segs, ".") : segs \in SeqsUpTo(Segments, MaxSegs) \ {<<>>} }

Values == { Num(5), Num(0), False, Str(<<>>), Null, Undefined }

\* ------------------------------------------------------------- state
VARIABLES
    validation,   \* the raw rule declaration being compiled
    pc,           \* "start", "parsed", "grouped", or "failed" after a throw
    thrown,       \* what the last call threw: "none", "Error", "TypeError"
    rules,        \* the canonical rule array, as parseRules returned it and
                  \* as groupBails leaves it
    groups,       \* the groups the last groupBails returned
    calls,        \* calls of groupBails made on `rules`
    obj,          \* the root structure handed to setNested and getNested
    log           \* the accessor calls made on obj, with their outcomes

vars == <<validation, pc, thrown, rules, groups, calls, obj, log>>
compilerVars == <<validation, pc, thrown, rules, groups, calls>>
accessorVars == <<obj, log>>

\* ------------------------------------------------------------- rule compiler
Init ==
    /\ validation \in Declarations
    /\ pc = "start"
    /\ thrown = "none"
    /\ rules = <<>>
    /\ groups = <<>>
    /\ calls = 0
    /\ obj = EmptyObject
    /\ log = <<>>

\* rules = parseRules(validation, registry)
ParseRules ==
    /\ pc = "start"
    /\ LET out == parseRules(validation, RegistryNames)
       IN  /\ thrown' = out.throws
           /\ pc' = IF out.throws = "none" THEN "parsed" ELSE "failed"
           /\ rules' = IF out.throws = "none" THEN out.value ELSE rules
    /\ UNCHANGED <<validation, groups, calls, accessorVars>>

\* groups = groupBails(rules)
GroupBails ==
    /\ pc \in {"parsed", "grouped"}
    /\ calls < MaxCalls
    /\ LET out == groupBails(rules)
       IN  /\ thrown' = out.throws
           /\ pc' = IF out.throws = "none" THEN "grouped" ELSE "failed"
           /\ groups' = out.value
           /\ rules' = out.rules
    /\ calls' = calls + 1
    /\ UNCHANGED <<validation, accessorVars>>

Next == ParseRules \/ GroupBails

Spec == Init /\ [][Next]_vars

\* ------------------------------------------------------------- path accessor
InitPath ==
    /\ validation = False
    /\ pc = "start"
    /\ thrown = "none"
    /\ rules = <<>>
    /\ groups = <<>>
    /\ calls = 0
    /\ obj = EmptyObject
    /\ log = <<>>

\* setNested(obj, field, value)
SetNested(field, value) ==
    /\ Len(log) < MaxOps
    /\ LET out == setNested(obj, field, value)
       IN  /\ obj' = out.obj
           /\ log' = Append(log, [op |-> "setNested", field |-> field,
                                  value |-> value, throws |-> out.throws,
                                  returned |-> IF out.throws = "none"
                                               THEN out.obj ELSE Undefined])
    /\ UNCHANGED compilerVars

\* getNested(obj, field)
GetNested(field) ==
    /\ Len(log) < MaxOps
    /\ LET out == getNested(obj, field)
       IN  log' = Append(log, [op |-> "getNested", field |-> field,
                               value |-> Undefined, throws |-> out.throws,
                               returned |-> out.value])
    /\ UNCHANGED <<obj, compilerVars>>

NextPath ==
    \/ \E field \in Paths, value \in Values : SetNested(field, value)
    \/ \E field \in Paths : GetNested(field)

SpecPath == InitPath /\ [][NextPath]_vars

\* ------------------------------------------------------------- properties
\* the pieces of s between the occurrences of sep, by position
SepPositions(s, sep) == { i \in 1..Len(s) : s[i] = sep }

NthSep(s, sep, n) ==
    CHOOSE p \in SepPositions(s, sep) :
        Cardinality({ q \in SepPositions(s, sep) : q < p }) = n - 1

Pieces(s, sep) ==
    LET count == Cardinality(SepPositions(s, sep)) + 1
    IN  [k \in 1..count |->
            SubSeq(s,
                   IF k = 1 THEN 1 ELSE NthSep(s, sep, k - 1) + 1,
                   IF k = count THEN Len(s) ELSE NthSep(s, sep, k) - 1)]

\* a rule token: its name part, its modifier, its normalized name, its args
NamePart(token) ==
    IF SepPositions(token, ":") = {} THEN token
    ELSE SubSeq(token, 1, NthSep(token, ":", 1) - 1)

HasCaret(token) == Len(token) > 0 /\ token[1] = "^"

Normalized(name) ==
    snakeToCamel(Str(IF HasCaret(name) THEN Tail(name) ELSE name)).s

ArgsOf(token) ==
    LET text == SubSeq(token, NthSep(token, ":", 1) + 1, Len(token))
    IN  IF SepPositions(token, ":") = {} THEN <<>>
        ELSE [k \in 1..Len(Pieces(text, ",")) |-> Str(Pieces(text, ",")[k])]

CanonicalOf(token) ==
    Arr(<<Validator(Normalized(NamePart(token))), Arr(ArgsOf(token)),
          Str(Normalized(NamePart(token))),
          IF HasCaret(token) THEN Str(<<"^">>) ELSE Null>>)

\* C3: a pipe-delimited declaration compiles to one canonical rule per token,
\* in order, with callable = registry[normalized name], args = the text after
\* the first ':' split on ',' (none without ':'), and modifier '^' exactly
\* when the token starts with '^'; one token whose normalized name is not
\* registered makes the whole call throw the unknown-rule error, and no rule
\* is returned.
C3_StringFormCompilation ==
    (validation.t = "string" /\ pc # "start" /\ calls = 0) =>
        LET tokens == Pieces(validation.s, "|")
        IN  IF \A k \in 1..Len(tokens) :
                    Normalized(NamePart(tokens[k])) \in RegistryNames
            THEN /\ thrown = "none"
                 /\ pc = "parsed"
                 /\ rules = [k \in 1..Len(tokens) |-> CanonicalOf(tokens[k])]
            ELSE /\ thrown = "Error"
                 /\ pc = "failed"
                 /\ rules = <<>>

C3_Witness ==
    /\ validation.t = "string"
    /\ pc = "parsed"
    /\ calls = 0
    /\ Len(rules) >= 2
    /\ \E k \in 1..Len(rules) :
          /\ At(rules[k].a, 3) = Str(<<"^">>)
          /\ Len(At(rules[k].a, 1).a) >= 1

\* what the array-form element [head, ...rest] is to yield
ExpectedOfElement(elem) ==
    LET head == Head(elem.a)
        rest == Arr(Tail(elem.a))
    IN  IF head.t = "string" /\ Normalized(head.s) \in RegistryNames
        THEN <<Arr(<<Validator(Normalized(head.s)), rest, Str(Normalized(head.s)),
                     IF HasCaret(head.s) THEN Str(<<"^">>) ELSE Null>>)>>
        ELSE IF head.t = "function"
        THEN <<Arr(<<head, rest, head, Null>>)>>
        ELSE <<>>

RECURSIVE ExpectedOfElements(_)
ExpectedOfElements(elems) ==
    IF Len(elems) = 0 THEN <<>>
    ELSE ExpectedOfElement(Head(elems)) \o ExpectedOfElements(Tail(elems))

\* C4: a declaration made of non-empty array elements [head, ...rest] never
\* raises: an element yields registry[name] with args rest when head resolves
\* to a registered name, {callable: head, args: rest, name: head} when head is
\* a callable, and is dropped otherwise, the other elements staying in order.
C4_ArrayElementsNeverRaise ==
    ( /\ validation.t = "array"
      /\ \A k \in 1..Len(validation.a) :
            validation.a[k].t = "array" /\ Len(validation.a[k].a) > 0
      /\ pc # "start"
      /\ calls = 0 ) =>
        /\ thrown = "none"
        /\ rules = ExpectedOfElements(validation.a)

\* a step that calls groupBails and returns
GroupBailsReturns == calls' = calls + 1 /\ thrown' = "none"

RECURSIVE Flatten(_)
Flatten(gs) == IF Len(gs) = 0 THEN <<>> ELSE Head(gs).a \o Flatten(Tail(gs))

NamedBail(rule) ==
    /\ Len(rule.a) >= 3
    /\ rule.a[3].t = "string"
    /\ toLowerCase(rule.a[3].s) = Bail

BailPositions(rs) == { k \in 1..Len(rs) : NamedBail(rs[k]) }

\* position of the first rule named bail, 0 when there is none
FirstBail(rs) ==
    IF BailPositions(rs) = {} THEN 0
    ELSE CHOOSE k \in BailPositions(rs) : \A j \in BailPositions(rs) : k <= j

WithoutFirstBail(rs) ==
    IF FirstBail(rs) = 0 THEN rs
    ELSE SubSeq(rs, 1, FirstBail(rs) - 1) \o SubSeq(rs, FirstBail(rs) + 1, Len(rs))

\* C5: the groups groupBails returns, concatenated in order, are the rules it
\* was given, in their order, without the first rule named 'bail'.
C5_OnlyPartitions ==
    [][GroupBailsReturns => Flatten(groups') = WithoutFirstBail(rules)]_vars

C5_Witness ==
    /\ pc = "grouped"
    /\ calls = 1
    /\ Len(parseRules(validation, RegistryNames).value) = 3
    /\ Len(groups) = 2
    /\ Len(groups[1].a) = 1
    /\ \E k \in 1..2 : At(groups[k].a[1].a, 3) = Str(<<"^">>)

\* C6: with the first rule named 'bail' at position i, every rule after i is,
\* in the groups returned, a singleton group of its own whose bail is true.
C6_GlobalBailKeyword ==
    [][(GroupBailsReturns /\ FirstBail(rules) > 0) =>
          \A k \in (FirstBail(rules) + 1)..Len(rules) :
              /\ Len(groups') - (Len(rules) - k) >= 1
              /\ groups'[Len(groups') - (Len(rules) - k)] = Group(<<rules[k]>>, True)]_vars

C6_Witness ==
    /\ pc = "grouped"
    /\ calls = 1
    /\ validation.t = "string"
    /\ NamedBail(CanonicalOf(Pieces(validation.s, "|")[1]))
    /\ Len(groups) = 2
    /\ At(groups[1].a[1].a, 3) = Str(<<"^">>)
    /\ \A k \in 1..2 : BailOf(groups[k]) = True /\ Len(groups[k].a) = 1

\* C7: in the groups returned, every rule whose modifier is '^' is alone in a
\* group whose bail is true.
C7_CaretRuleBails ==
    pc = "grouped" =>
        \A g \in 1..Len(groups) : \A k \in 1..Len(groups[g].a) :
            At(groups[g].a[k].a, 3) = Str(<<"^">>) =>
                Len(groups[g].a) = 1 /\ BailOf(groups[g]) = True

\* C8: no group returned is empty (so no rules give no groups).
C8_NoEmptyGroup ==
    pc = "grouped" => \A g \in 1..Len(groups) : Len(groups[g].a) >= 1

\* C9: groupBails never raises on a rule sequence parseRules produced.
C9_GroupBailsTotal == calls >= 1 => thrown = "none"

\* C10: groupBails leaves the rule sequence it was given as it was, and a
\* second call on it returns the groups the first call returned.
C10_SideEffectFree ==
    [][GroupBailsReturns =>
          /\ rules' = rules
          /\ (pc = "grouped" => groups' = groups)]_vars

\* the keys a path expression walks: name, then index, per segment
RECURSIVE KeysOf(_)
KeysOf(segments) ==
    IF Len(segments) = 0 THEN <<>>
    ELSE (IF match(Head(segments)) # <<>>
          THEN match(Head(segments))
          ELSE <<Head(segments)>>) \o KeysOf(Tail(segments))

\* the value stored under the keys, every key being present in its container
RECURSIVE Stored(_, _)
Stored(x, keys) ==
    IF Len(keys) = 0 THEN [present |-> TRUE, value |-> x]
    ELSE IF HasProp(x, Head(keys)) THEN Stored(GetProp(x, Head(keys)), Tail(keys))
    ELSE [present |-> FALSE, value |-> Undefined]

\* C1: getNested(setNested({}, p, v), p) returns v, for every valid path p
\* (a bracketed segment may stand before the last one) and every value v.
C1_RoundTrip ==
    (Len(log) >= 1 /\ log[1].op = "setNested") =>
        /\ log[1].throws = "none"
        /\ (Len(log) >= 2 /\ log[2].op = "getNested" /\ log[2].field = log[1].field) =>
              log[2].throws = "none" /\ log[2].returned = log[1].value

\* C2: getNested never raises; it returns null when a segment of the path,
\* the last one included, is missing from its container, and the stored
\* value as it is otherwise.
C2_GetNestedAbsenceIsNull ==
    (Len(log) >= 1 /\ log[Len(log)].op = "getNested") =>
        LET call == log[Len(log)]
            at == Stored(obj, KeysOf(Pieces(call.field, ".")))
        IN  /\ call.throws = "none"
            /\ call.returned = IF at.present THEN at.value ELSE Null

====
